---- MODULE Spec2Model ----
(***************************************************************************)
(* Model of the Markdown-to-Docx converter of src/streamlit.py:            *)
(* generate_docx (the line loop with its table buffer) and                 *)
(* create_table_from_markdown (table reconstruction with its fallback).    *)
(*                                                                         *)
(* A Python str is modelled as a sequence of one-character strings, so     *)
(* that strip, startswith, endswith, split, slicing and the substring      *)
(* test are computed character by character.  The python-docx Document is  *)
(* modelled as the ordered sequence of the blocks added to it.             *)
(***************************************************************************)
EXTENDS Integers, Sequences, FiniteSets, TLC

\* ------------------------------------------------------------------ bounds
\* largest number of lines in an input text
MaxLines == 3
\* the library calls of one try block are numbered 1, 2, ...; an injected
\* failure hits call number 1..MaxFail (0: no injected failure)
MaxFail == 4
\* largest number of lines of a text when two conversions run at once
MaxConcLines == 2

\* ------------------------------------------------------ Python str helpers
NL == "\n"
Whitespace == {" ", "\t", NL}

StartsWith(s, p) == Len(s) >= Len(p) /\ SubSeq(s, 1, Len(p)) = p

EndsWith(s, p) == Len(s) >= Len(p) /\ SubSeq(s, Len(s) - Len(p) + 1, Len(s)) = p

\* p in s
Contains(s, p) == \E i \in 1..(Len(s) - Len(p) + 1) : SubSeq(s, i, i + Len(p) - 1) = p

\* s[n:]
SliceFrom(s, n) == SubSeq(s, n + 1, Len(s))

RECURSIVE LStrip(_)
LStrip(s) == IF s # <<>> /\ Head(s) \in Whitespace THEN LStrip(Tail(s)) ELSE s

RECURSIVE RStrip(_)
RStrip(s) ==
    IF s # <<>> /\ s[Len(s)] \in Whitespace THEN RStrip(SubSeq(s, 1, Len(s) - 1)) ELSE s

\* s.strip()
Strip(s) == RStrip(LStrip(s))

\* s.split(c) for a one-character separator c
RECURSIVE SplitOn(_, _)
SplitOn(s, c) ==
    IF \A i \in 1..Len(s) : s[i] # c
    THEN <<s>>
    ELSE LET i == CHOOSE k \in 1..Len(s) : s[k] = c /\ \A m \in 1..(k - 1) : s[m] # c
         IN  <<SubSeq(s, 1, i - 1)>> \o SplitOn(SubSeq(s, i + 1, Len(s)), c)

\* '\n'.join(ls), the inverse used to build the input texts
RECURSIVE JoinLines(_)
JoinLines(ls) ==
    IF Len(ls) = 1 THEN ls[1] ELSE ls[1] \o <<NL>> \o JoinLines(Tail(ls))

\* [f(x) for x in s]
StripAll(s) == [i \in 1..Len(s) |-> Strip(s[i])]

NonEmpty(s) == s # <<>>

\* ----------------------------------------------------------- input domain
\* The lines the input texts are made of: every shape the converter
\* distinguishes (blank, the three heading markers, bullets with and without
\* leading blanks, text, the lone pipe, table rows of several widths and
\* paddings, the separator row, a stray pipe).
LineSet ==
    { <<>>,
      <<" ">>,
      <<"#", " ", "a">>,
      <<"#", "#", " ", "a">>,
      <<"#", "#", "#", " ", "a">>,
      <<"*", " ", "a">>,
      <<" ", "-", " ", "a">>,
      <<"a", "|">>,
      <<"|">>,
      <<"|", "a", "|">>,
      <<" ", "|", "a", " ", "|", "b", "|">>,
      <<"|", "-", "-", "-", "|">> }

RECURSIVE SeqsOfLen(_, _)
SeqsOfLen(S, n) ==
    IF n = 0 THEN {<<>>}
    ELSE {<<x>> \o t : x \in S, t \in SeqsOfLen(S, n - 1)}

Texts == UNION {{JoinLines(ls) : ls \in SeqsOfLen(LineSet, n)} : n \in 1..MaxLines}

\* ------------------------------------------------------- document blocks
Block(kind, level, text, ncols, cells, style) ==
    [kind |-> kind, level |-> level, text |-> text,
     ncols |-> ncols, cells |-> cells, style |-> style]

\* doc.add_heading(text, level=level)
Heading(text, level) == Block("heading", level, text, 0, <<>>, "Heading")

\* doc.add_paragraph(text, style='List Bullet')
Bullet(text) == Block("paragraph", 0, text, 0, <<>>, "List Bullet")

\* doc.add_paragraph(text)
Paragraph(text) == Block("paragraph", 0, text, 0, <<>>, "Normal")

\* doc.add_table(rows=nrows, cols=ncols): a grid of empty cells
NewTable(nrows, ncols) ==
    Block("table", 0, <<>>, ncols,
          [i \in 1..nrows |-> [j \in 1..ncols |-> <<>>]], "")

\* ------------------------------------------- create_table_from_markdown
Dashes == <<"-", "-", "-">>

\* [row for row in table_lines if '---' not in row]
FilterRows(table_lines) == SelectSeq(table_lines, LAMBDA row : ~Contains(row, Dashes))

\* CellsOf that tests c.strip() but keeps the untrimmed piece
CellsOf_NoStrip(row) == SelectSeq(SplitOn(row, "|"), LAMBDA c : Strip(c) # <<>>)

\* CellsOf without the test c.strip() != '': the empty pieces before the
\* first and after the last '|' are kept
CellsOf_KeepEmpty(row) == StripAll(SplitOn(row, "|"))

\* [c.strip() for c in row.split('|') if c.strip() != '']
CellsOf(row) == SelectSeq(StripAll(SplitOn(row, "|")), NonEmpty)

\* RowWrites without the guard j < num_cols
RowWrites_NoGuard(i, cells_text, num_cols) ==
    [j \in 1..Len(cells_text) |-> [i |-> i, j |-> j, text |-> cells_text[j]]]

\* the assignments table.cell(i, j).text = text that the inner loop makes for
\* row i, in order (indices are 1-based here, so the guard j < num_cols of
\* the 0-based code reads j <= num_cols)
RowWrites(i, cells_text, num_cols) ==
    SelectSeq([j \in 1..Len(cells_text) |-> [i |-> i, j |-> j, text |-> cells_text[j]]],
              LAMBDA w : w.j <= num_cols)

RECURSIVE Flatten(_)
Flatten(ss) == IF ss = <<>> THEN <<>> ELSE Head(ss) \o Flatten(Tail(ss))

\* all cell assignments of the outer loop, in execution order
CellWrites(rows, num_cols) ==
    Flatten([i \in 1..Len(rows) |-> RowWrites(i, CellsOf(rows[i]), num_cols)])

\* The cell assignments executed one after the other.  n library calls were
\* made before; the assignment raises when it is the call the injected
\* failure hits, or when its cell lies outside the grid (IndexError).
RECURSIVE FillCells(_, _, _, _)
FillCells(table, writes, n, fail) ==
    IF writes = <<>> THEN [table |-> table, raised |-> FALSE]
    ELSE LET w == Head(writes)
         IN  IF fail = n + 1 \/ w.i > Len(table.cells) \/ w.j > table.ncols
             THEN [table |-> table, raised |-> TRUE]
             ELSE FillCells([table EXCEPT !.cells[w.i][w.j] = w.text],
                            Tail(writes), n + 1, fail)

\* The statements of the try block after the early return: add_table (call
\* 1), the style assignment (call 2), the cell assignments (calls 3, ...).
\* The table is part of the document from add_table on, whatever follows.
TryBody(doc, rows, num_cols, fail) ==
    IF fail = 1 THEN [doc |-> doc, raised |-> TRUE]
    ELSE LET table == NewTable(Len(rows), num_cols)
         IN  IF fail = 2 THEN [doc |-> Append(doc, table), raised |-> TRUE]
             ELSE LET filled == FillCells([table EXCEPT !.style = "Table Grid"],
                                          CellWrites(rows, num_cols), 2, fail)
                  IN  [doc |-> Append(doc, filled.table), raised |-> filled.raised]

\* Fallback looping over the filtered rows instead of table_lines
Fallback_KeptOnly(doc, table_lines) ==
    doc \o [i \in 1..Len(FilterRows(table_lines)) |-> Paragraph(FilterRows(table_lines)[i])]

\* except Exception: one paragraph per line of table_lines
Fallback(doc, table_lines) ==
    doc \o [i \in 1..Len(table_lines) |-> Paragraph(table_lines[i])]

\* CreateTable without the except clause: what the try block raises leaves
\* the function
CreateTable_NoHandler(doc, table_lines, fail) ==
    LET rows == FilterRows(table_lines)
    IN  IF rows = <<>>
        THEN [doc |-> doc, raised |-> FALSE, error |-> FALSE]
        ELSE LET body == TryBody(doc, rows, Len(CellsOf(rows[1])), fail)
             IN  [doc |-> body.doc, raised |-> body.raised, error |-> body.raised]

\* CreateTable without "if not rows: return": rows[0] raises on the empty
\* list and the handler runs
CreateTable_NoEarlyReturn(doc, table_lines, fail) ==
    LET rows == FilterRows(table_lines)
    IN  IF rows = <<>>
        THEN [doc |-> Fallback(doc, table_lines), raised |-> TRUE, error |-> FALSE]
        ELSE LET body == TryBody(doc, rows, Len(CellsOf(rows[1])), fail)
             IN  IF body.raised
                 THEN [doc |-> Fallback(body.doc, table_lines),
                       raised |-> TRUE, error |-> FALSE]
                 ELSE [doc |-> body.doc, raised |-> FALSE, error |-> FALSE]

\* create_table_from_markdown(doc, table_lines).  raised: the try block
\* raised and the handler ran; error: an exception left the function.
CreateTable(doc, table_lines, fail) ==
    LET rows == FilterRows(table_lines)
    IN  IF rows = <<>>
        THEN [doc |-> doc, raised |-> FALSE, error |-> FALSE]
        ELSE LET num_cols == Len(CellsOf(rows[1]))
                 body == TryBody(doc, rows, num_cols, fail)
             IN  IF body.raised
                 THEN [doc |-> Fallback(body.doc, table_lines),
                       raised |-> TRUE, error |-> FALSE]
                 ELSE [doc |-> body.doc, raised |-> FALSE, error |-> FALSE]

\* ---------------------------------------------------------- generate_docx
\* stripped.startswith('|') and stripped.endswith('|')
LooksLikeTableRow(stripped) ==
    StartsWith(stripped, <<"|">>) /\ EndsWith(stripped, <<"|">>)

\* ProcessText whose last branch is a plain else: a blank line is written
\* as a paragraph too
ProcessText_NoBlankTest(doc, line, stripped) ==
    IF StartsWith(line, <<"#", " ">>) THEN Append(doc, Heading(SliceFrom(line, 2), 1))
    ELSE IF StartsWith(line, <<"#", "#", " ">>)
         THEN Append(doc, Heading(SliceFrom(line, 2), 2))
    ELSE IF StartsWith(line, <<"#", "#", "#", " ">>)
         THEN Append(doc, Heading(SliceFrom(line, 2), 3))
    ELSE IF StartsWith(line, <<"*", " ">>) \/ StartsWith(line, <<"-", " ">>)
         THEN Append(doc, Bullet(SliceFrom(line, 2)))
    ELSE Append(doc, Paragraph(line))

\* the if/elif chain "Process normal text"
ProcessText(doc, line, stripped) ==
    IF StartsWith(line, <<"#", " ">>) THEN Append(doc, Heading(SliceFrom(line, 2), 1))
    ELSE IF StartsWith(line, <<"#", "#", " ">>)
         THEN Append(doc, Heading(SliceFrom(line, 2), 2))
    ELSE IF StartsWith(line, <<"#", "#", "#", " ">>)
         THEN Append(doc, Heading(SliceFrom(line, 2), 3))
    ELSE IF StartsWith(line, <<"*", " ">>) \/ StartsWith(line, <<"-", " ">>)
         THEN Append(doc, Bullet(SliceFrom(line, 2)))
    ELSE IF stripped # <<>> THEN Append(doc, Paragraph(line))
    ELSE doc

\* the record of one call of create_table_from_markdown: its argument, the
\* library call the injected failure hit (0: the failure hit no call of this
\* reconstruction), the length of the document before and after the call
Call(table_lines, fail, before, res) ==
    [table_lines |-> table_lines,
     fail |-> IF res.raised /\ fail >= 1 THEN fail ELSE 0,
     at |-> before, end |-> Len(res.doc), raised |-> res.raised]

\* LoopBody that buffers the line as read instead of its trimmed form
LoopBody_BuffersUntrimmed(doc0, buffer, calls0, line, fail) ==
    LET stripped == Strip(line)
    IN  IF LooksLikeTableRow(stripped)
        THEN [doc |-> doc0, table_buffer |-> Append(buffer, line),
              calls |-> calls0, error |-> FALSE]
        ELSE IF buffer # <<>>
             THEN LET res == CreateTable(doc0, buffer, fail)
                  IN  [doc |-> ProcessText(res.doc, line, stripped),
                       table_buffer |-> <<>>,
                       calls |-> Append(calls0, Call(buffer, fail, Len(doc0), res)),
                       error |-> res.error]
             ELSE [doc |-> ProcessText(doc0, line, stripped), table_buffer |-> buffer,
                   calls |-> calls0, error |-> FALSE]

\* LoopBody in which the line that ends a table is used up by the flush
LoopBody_LineConsumed(doc0, buffer, calls0, line, fail) ==
    LET stripped == Strip(line)
    IN  IF LooksLikeTableRow(stripped)
        THEN [doc |-> doc0, table_buffer |-> Append(buffer, stripped),
              calls |-> calls0, error |-> FALSE]
        ELSE IF buffer # <<>>
             THEN LET res == CreateTable(doc0, buffer, fail)
                  IN  [doc |-> res.doc, table_buffer |-> <<>>,
                       calls |-> Append(calls0, Call(buffer, fail, Len(doc0), res)),
                       error |-> res.error]
             ELSE [doc |-> ProcessText(doc0, line, stripped), table_buffer |-> buffer,
                   calls |-> calls0, error |-> FALSE]

\* LoopBody without "table_buffer = []" after the flush
LoopBody_NoReset(doc0, buffer, calls0, line, fail) ==
    LET stripped == Strip(line)
    IN  IF LooksLikeTableRow(stripped)
        THEN [doc |-> doc0, table_buffer |-> Append(buffer, stripped),
              calls |-> calls0, error |-> FALSE]
        ELSE IF buffer # <<>>
             THEN LET res == CreateTable(doc0, buffer, fail)
                  IN  [doc |-> ProcessText(res.doc, line, stripped),
                       table_buffer |-> buffer,
                       calls |-> Append(calls0, Call(buffer, fail, Len(doc0), res)),
                       error |-> res.error]
             ELSE [doc |-> ProcessText(doc0, line, stripped), table_buffer |-> buffer,
                   calls |-> calls0, error |-> FALSE]

\* LoopBody with the text of the line written before the pending table
LoopBody_LineFirst(doc0, buffer, calls0, line, fail) ==
    LET stripped == Strip(line)
    IN  IF LooksLikeTableRow(stripped)
        THEN [doc |-> doc0, table_buffer |-> Append(buffer, stripped),
              calls |-> calls0, error |-> FALSE]
        ELSE IF buffer # <<>>
             THEN LET doc1 == ProcessText(doc0, line, stripped)
                      res == CreateTable(doc1, buffer, fail)
                  IN  [doc |-> res.doc, table_buffer |-> <<>>,
                       calls |-> Append(calls0, Call(buffer, fail, Len(doc1), res)),
                       error |-> res.error]
             ELSE [doc |-> ProcessText(doc0, line, stripped), table_buffer |-> buffer,
                   calls |-> calls0, error |-> FALSE]

\* one iteration of the for loop: the state after the body has run on line
LoopBody(doc0, buffer, calls0, line, fail) ==
    LET stripped == Strip(line)
    IN  IF LooksLikeTableRow(stripped)
        THEN [doc |-> doc0, table_buffer |-> Append(buffer, stripped),
              calls |-> calls0, error |-> FALSE]
        ELSE IF buffer # <<>>
             THEN LET res == CreateTable(doc0, buffer, fail)
                  IN  IF res.error
                      THEN [doc |-> res.doc, table_buffer |-> buffer,
                            calls |-> Append(calls0, Call(buffer, fail, Len(doc0), res)),
                            error |-> TRUE]
                      ELSE [doc |-> ProcessText(res.doc, line, stripped),
                            table_buffer |-> <<>>,
                            calls |-> Append(calls0, Call(buffer, fail, Len(doc0), res)),
                            error |-> FALSE]
             ELSE [doc |-> ProcessText(doc0, line, stripped), table_buffer |-> buffer,
                   calls |-> calls0, error |-> FALSE]

\* EndFlush without the check after the loop
EndFlush_Skipped(doc0, buffer, calls0, fail) ==
    [doc |-> doc0, calls |-> calls0, error |-> FALSE]

\* "Catch any table at the very end of the file"
EndFlush(doc0, buffer, calls0, fail) ==
    IF buffer # <<>>
    THEN LET res == CreateTable(doc0, buffer, fail)
         IN  [doc |-> res.doc,
              calls |-> Append(calls0, Call(buffer, fail, Len(doc0), res)),
              error |-> res.error]
    ELSE [doc |-> doc0, calls |-> calls0, error |-> FALSE]

VARIABLES
    text_content,   \* the argument of generate_docx
    lines,          \* text_content.split('\n')
    idx,            \* position of the for loop: lines[idx] is the next line
    table_buffer,   \* the rows of the table being collected
    doc,            \* the blocks added to the Document so far
    calls,          \* history: the calls of create_table_from_markdown
    pc              \* "start", "loop", "save", "done", "error"

vars == <<text_content, lines, idx, table_buffer, doc, calls, pc>>

\* the failures that can be injected into a step: any library call of the
\* reconstruction when the step flushes, none otherwise
FailuresAt(flushes) == IF flushes THEN 0..MaxFail ELSE {0}

\* generate_docx is entered with some text
Init ==
    /\ text_content \in Texts
    /\ lines = <<>>
    /\ idx = 1
    /\ table_buffer = <<>>
    /\ doc = <<>>
    /\ calls = <<>>
    /\ pc = "start"

\* doc = Document(); lines = text_content.split('\n'); table_buffer = []
Begin ==
    /\ pc = "start"
    /\ lines' = SplitOn(text_content, NL)
    /\ table_buffer' = <<>>
    /\ doc' = <<>>
    /\ idx' = 1
    /\ pc' = "loop"
    /\ UNCHANGED <<text_content, calls>>

\* for line in lines: ...
LoopStep ==
    /\ pc = "loop"
    /\ idx <= Len(lines)
    /\ \E fail \in FailuresAt(table_buffer # <<>> /\ ~LooksLikeTableRow(Strip(lines[idx]))) :
          LET r == LoopBody(doc, table_buffer, calls, lines[idx], fail)
          IN  /\ doc' = r.doc
              /\ table_buffer' = r.table_buffer
              /\ calls' = r.calls
              /\ pc' = IF r.error THEN "error" ELSE "loop"
              /\ idx' = IF r.error THEN idx ELSE idx + 1
    /\ UNCHANGED <<text_content, lines>>

\* the loop is over: if table_buffer: create_table_from_markdown(...)
FinalFlush ==
    /\ pc = "loop"
    /\ idx > Len(lines)
    /\ \E fail \in FailuresAt(table_buffer # <<>>) :
          LET r == EndFlush(doc, table_buffer, calls, fail)
          IN  /\ doc' = r.doc
              /\ calls' = r.calls
              /\ pc' = IF r.error THEN "error" ELSE "save"
    /\ UNCHANGED <<text_content, lines, idx, table_buffer>>

\* doc.save(bio); return bio.getvalue()
Return ==
    /\ pc = "save"
    /\ pc' = "done"
    /\ UNCHANGED <<text_content, lines, idx, table_buffer, doc, calls>>

Next == Begin \/ LoopStep \/ FinalFlush \/ Return

Spec == Init /\ [][Next]_vars

\* ------------------------------------------- two calls of generate_docx
\* Two calls of generate_docx whose steps interleave.  The variables hold one
\* value per call: text_content, lines, idx and pc are indexed by the call;
\* table_buffer and doc are indexed by the list object and the Document
\* object the local names of a call refer to.
Procs == {1, 2}

ConcLineSet ==
    { <<"a", "|">>,
      <<"|", "a", "|">>,
      <<" ", "|", "a", " ", "|", "b", "|">> }

ConcTexts ==
    UNION {{JoinLines(ls) : ls \in SeqsOfLen(ConcLineSet, n)} : n \in 1..MaxConcLines}

\* BufferOf with one list shared by all calls (a module-level list, or a
\* mutable default argument)
BufferOf_Shared(p) == 1

\* table_buffer = []: the list object of call p, made by the call itself
BufferOf(p) == p

\* doc = Document(): the Document object of call p, made by the call itself
DocOf(p) == p

ConcInit ==
    /\ text_content \in [Procs -> ConcTexts]
    /\ lines = [p \in Procs |-> <<>>]
    /\ idx = [p \in Procs |-> 1]
    /\ table_buffer = [o \in Procs |-> <<>>]
    /\ doc = [o \in Procs |-> <<>>]
    /\ calls = <<>>
    /\ pc = [p \in Procs |-> "start"]

ConcBegin(p) ==
    /\ pc[p] = "start"
    /\ lines' = [lines EXCEPT ![p] = SplitOn(text_content[p], NL)]
    /\ table_buffer' = [table_buffer EXCEPT ![BufferOf(p)] = <<>>]
    /\ doc' = [doc EXCEPT ![DocOf(p)] = <<>>]
    /\ idx' = [idx EXCEPT ![p] = 1]
    /\ pc' = [pc EXCEPT ![p] = "loop"]
    /\ UNCHANGED <<text_content, calls>>

ConcLoopStep(p) ==
    /\ pc[p] = "loop"
    /\ idx[p] <= Len(lines[p])
    /\ LET r == LoopBody(doc[DocOf(p)], table_buffer[BufferOf(p)], <<>>,
                         lines[p][idx[p]], 0)
       IN  /\ doc' = [doc EXCEPT ![DocOf(p)] = r.doc]
           /\ table_buffer' = [table_buffer EXCEPT ![BufferOf(p)] = r.table_buffer]
    /\ idx' = [idx EXCEPT ![p] = idx[p] + 1]
    /\ UNCHANGED <<text_content, lines, calls, pc>>

ConcFinalFlush(p) ==
    /\ pc[p] = "loop"
    /\ idx[p] > Len(lines[p])
    /\ doc' = [doc EXCEPT ![DocOf(p)] =
                  EndFlush(doc[DocOf(p)], table_buffer[BufferOf(p)], <<>>, 0).doc]
    /\ pc' = [pc EXCEPT ![p] = "save"]
    /\ UNCHANGED <<text_content, lines, idx, table_buffer, calls>>

ConcReturn(p) ==
    /\ pc[p] = "save"
    /\ pc' = [pc EXCEPT ![p] = "done"]
    /\ UNCHANGED <<text_content, lines, idx, table_buffer, doc, calls>>

ConcNext ==
    \E p \in Procs : ConcBegin(p) \/ ConcLoopStep(p) \/ ConcFinalFlush(p) \/ ConcReturn(p)

ConcSpec == ConcInit /\ [][ConcNext]_vars

TypeOK ==
    /\ pc \in {"start", "loop", "save", "done", "error"}
    /\ idx \in 1..(Len(lines) + 1)
    /\ \A k \in 1..Len(doc) : doc[k].kind \in {"heading", "paragraph", "table"}

\* ------------------------------------------------------------ properties
Last(s) == s[Len(s)]

\* the line the loop has just processed
Processed == pc = "loop" /\ idx > 1
PrevLine == lines[idx - 1]

\* the loop is over and the end-of-input flush has run
Finished == pc \in {"save", "done"}

\* n '#' characters followed by one space
Marker(n) == [i \in 1..(n + 1) |-> IF i <= n THEN "#" ELSE " "]

\* the blocks call k of create_table_from_markdown added to the document
Output(k) == SubSeq(doc, calls[k].at + 1, calls[k].end)

\* the rows of a buffer without the substring '---', by position
RECURSIVE KeptRows(_)
KeptRows(buffer) ==
    IF buffer = <<>> THEN <<>>
    ELSE IF \E i \in 1..Len(Head(buffer)) :
                 i + 2 <= Len(Head(buffer))
                 /\ Head(buffer)[i] = "-" /\ Head(buffer)[i + 1] = "-"
                 /\ Head(buffer)[i + 2] = "-"
         THEN KeptRows(Tail(buffer))
         ELSE <<Head(buffer)>> \o KeptRows(Tail(buffer))

\* the non-empty trimmed pieces of a row between its '|' characters
RECURSIVE Pieces(_, _)
Pieces(row, cur) ==
    IF row = <<>> THEN (IF Strip(cur) = <<>> THEN <<>> ELSE <<Strip(cur)>>)
    ELSE IF Head(row) = "|"
         THEN (IF Strip(cur) = <<>> THEN <<>> ELSE <<Strip(cur)>>) \o Pieces(Tail(row), <<>>)
         ELSE Pieces(Tail(row), Append(cur, Head(row)))

\* C1: every line that begins with one, two or three '#' and a space gives a
\* heading block whose level is the number of '#' and whose text is the line
\* after the '#' marker and the one space that follows it.
C1_HeadingLevelAndText ==
    \A n \in 1..3 :
        (Processed /\ StartsWith(PrevLine, Marker(n)))
            => /\ doc # <<>>
               /\ Last(doc).kind = "heading"
               /\ Last(doc).level = n
               /\ Last(doc).text = SubSeq(PrevLine, n + 2, Len(PrevLine))

\* C2: a line is appended to the table buffer if and only if its trimmed
\* form starts with '|', ends with '|' and has length at least 2; the line
\* "|" is never appended.
C2_TableRowIffBothEndsAndLength2 ==
    Processed =>
        LET s == Strip(PrevLine)
        IN  (table_buffer # <<>> /\ Last(table_buffer) = s)
                <=> (Len(s) >= 2 /\ s[1] = "|" /\ s[Len(s)] = "|")

\* C3: when the buffer is not empty and the next line is not a table row,
\* the buffer is flushed first, the blocks of the flush are appended, the
\* buffer becomes empty, and only then the line is processed as in Scanning:
\* the document grows by the flush of exactly the buffered rows followed by
\* the block of the line, so rows on either side of the line never share a
\* table.
C3_FlushThenProcess ==
    [][(pc = "loop" /\ idx <= Len(lines) /\ table_buffer # <<>>
        /\ ~(LET s == Strip(lines[idx])
             IN  s # <<>> /\ s[1] = "|" /\ s[Len(s)] = "|"))
       => /\ table_buffer' = <<>>
          /\ Len(calls') = Len(calls) + 1
          /\ Last(calls').table_lines = table_buffer
          /\ Last(calls').at = Len(doc)
          /\ SubSeq(doc', 1, Len(doc)) = doc
          /\ SubSeq(doc', Last(calls').end + 1, Len(doc'))
                = ProcessText(<<>>, lines[idx], Strip(lines[idx]))
          /\ \A k \in (Len(doc) + 1)..Last(calls').end :
                doc'[k].kind = "table" => Len(doc'[k].cells) <= Len(table_buffer)
          /\ idx' = idx + 1]_vars

\* C3 witness: two tables with the block of the interrupting line between
\* them, each table from its own flush
C3_Witness ==
    /\ Finished
    /\ Len(calls) = 2
    /\ Len(doc) = 3
    /\ doc[1].kind = "table" /\ doc[2].kind # "table" /\ doc[3].kind = "table"
    /\ calls[1].end = 1 /\ calls[2].at = 2

\* the maximal run of table-row lines at the end of ls, trimmed
RECURSIVE TrailingRun(_)
TrailingRun(ls) ==
    IF ls = <<>> THEN <<>>
    ELSE LET s == Strip(Last(ls))
         IN  IF s # <<>> /\ s[1] = "|" /\ s[Len(s)] = "|"
             THEN Append(TrailingRun(SubSeq(ls, 1, Len(ls) - 1)), s)
             ELSE <<>>

\* C4: when the input ends with a table row, the buffer is flushed through
\* table reconstruction before the document is returned: the last call of
\* the reconstruction got exactly the trailing run of rows, its blocks end
\* the document, and every row that is kept is a row of the table (or, when
\* the reconstruction raised, a paragraph).
C4_EndOfInputFlush ==
    (Finished /\ TrailingRun(lines) # <<>>)
        => /\ calls # <<>>
           /\ Last(calls).table_lines = TrailingRun(lines)
           /\ Last(calls).end = Len(doc)
           /\ (~Last(calls).raised /\ KeptRows(TrailingRun(lines)) # <<>>)
                 => /\ doc # <<>>
                    /\ Last(doc).kind = "table"
                    /\ Len(Last(doc).cells) = Len(KeptRows(TrailingRun(lines)))
           /\ Last(calls).raised
                 => /\ Len(doc) >= Len(TrailingRun(lines))
                    /\ \A i \in 1..Len(TrailingRun(lines)) :
                          doc[Len(doc) - Len(TrailingRun(lines)) + i]
                              = Paragraph(TrailingRun(lines)[i])

\* C4 witness: the document was returned with a table built by the
\* end-of-input flush as its last block
C4_Witness ==
    /\ pc = "done"
    /\ TrailingRun(lines) # <<>>
    /\ ~Last(calls).raised
    /\ doc # <<>> /\ Last(doc).kind = "table"
    /\ Last(calls).at = Len(doc) - 1

\* the paragraph blocks among the blocks of call k, in order
ParagraphsOf(k) == SelectSeq(Output(k), LAMBDA b : b.kind = "paragraph")

\* the table blocks among the blocks of call k, in order
TablesOf(k) == SelectSeq(Output(k), LAMBDA b : b.kind = "table")

\* C5: when table reconstruction of a buffer raises, the output for that
\* buffer has exactly one paragraph block per row of the original buffer,
\* separator rows included, in the original order, and no error reaches the
\* caller of generate_docx.
C5_FallbackKeepsEveryRow ==
    /\ pc # "error"
    /\ \A k \in 1..Len(calls) :
          calls[k].raised
              => /\ Len(ParagraphsOf(k)) = Len(calls[k].table_lines)
                 /\ \A i \in 1..Len(calls[k].table_lines) :
                       /\ ParagraphsOf(k)[i].text = calls[k].table_lines[i]
                       /\ ParagraphsOf(k)[i].style = "Normal"

\* C5 witness: a reconstruction raised on a buffer that holds a separator
\* row, and the document was returned
C5_Witness ==
    /\ pc = "done"
    /\ \E k \in 1..Len(calls) :
          /\ calls[k].raised
          /\ Len(calls[k].table_lines) >= 2
          /\ Len(KeptRows(calls[k].table_lines)) < Len(calls[k].table_lines)
          /\ Len(ParagraphsOf(k)) = Len(calls[k].table_lines)

\* C6: when table reconstruction of a buffer raises at any step, the output
\* for that buffer holds the fallback paragraphs only and no table block,
\* complete or partially filled.
C6_NoTableAfterFailure ==
    \A k \in 1..Len(calls) :
        calls[k].raised => \A n \in 1..Len(Output(k)) : Output(k)[n].kind # "table"

\* C7 (as stated): a buffer that reconstructs without error gives exactly one
\* table block; its row count is the number of rows without '---' and its
\* column count the number of non-empty trimmed pieces of the first such row.
C7_AlwaysOneTable ==
    \A k \in 1..Len(calls) :
        ~calls[k].raised
            => LET kept == KeptRows(calls[k].table_lines)
               IN  /\ Len(Output(k)) = 1
                   /\ Output(k)[1].kind = "table"
                   /\ Len(Output(k)[1].cells) = Len(kept)
                   /\ kept # <<>> => Output(k)[1].ncols = Len(Pieces(kept[1], <<>>))

\* C7 (amended): a buffer that reconstructs without error and keeps at least
\* one row after the rows with '---' are discarded gives exactly one table
\* block; its row count is the number of kept rows, its column count the
\* number of non-empty trimmed pieces of the first kept row, and that first
\* row (the header) is its first row of cells.
C7_OneTableOfKeptRows ==
    \A k \in 1..Len(calls) :
        LET kept == KeptRows(calls[k].table_lines)
        IN  (~calls[k].raised /\ kept # <<>>)
                => /\ Len(Output(k)) = 1
                   /\ Output(k)[1].kind = "table"
                   /\ Len(Output(k)[1].cells) = Len(kept)
                   /\ Output(k)[1].ncols = Len(Pieces(kept[1], <<>>))
                   /\ Output(k)[1].cells[1] = Pieces(kept[1], <<>>)

\* C7 witness: header, separator and one more row gave a table of two rows
C7_Witness ==
    /\ pc = "done"
    /\ \E k \in 1..Len(calls) :
          /\ ~calls[k].raised
          /\ Len(calls[k].table_lines) = 3
          /\ Len(KeptRows(calls[k].table_lines)) = 2
          /\ Len(Output(k)) = 1
          /\ Len(Output(k)[1].cells) = 2
          /\ Output(k)[1].ncols >= 1

\* C8: the column count is that of the first kept row; in every kept row
\* the non-empty trimmed cells go to columns 0..num_cols-1 in order, a cell
\* beyond num_cols is dropped, the columns a short row does not reach stay
\* empty, and a ragged row never raises: without an injected library
\* failure the reconstruction does not take the fallback path.
C8_RaggedRowsTruncatedAndPadded ==
    \A k \in 1..Len(calls) :
        LET kept == KeptRows(calls[k].table_lines)
        IN  /\ calls[k].fail = 0 => ~calls[k].raised
            /\ (~calls[k].raised /\ kept # <<>>)
                  => /\ TablesOf(k) # <<>>
                     /\ LET t == TablesOf(k)[1]
                        IN  /\ t.ncols = Len(Pieces(kept[1], <<>>))
                            /\ \A i \in 1..Len(kept) :
                                  /\ Len(t.cells[i]) = t.ncols
                                  /\ \A j \in 1..t.ncols :
                                        t.cells[i][j]
                                            = IF j <= Len(Pieces(kept[i], <<>>))
                                              THEN Pieces(kept[i], <<>>)[j]
                                              ELSE <<>>

\* C8 witness: one table was built from a row with more cells than columns
\* and a row with fewer
C8_Witness ==
    /\ pc = "done"
    /\ \E k \in 1..Len(calls) :
          LET kept == KeptRows(calls[k].table_lines)
          IN  /\ ~calls[k].raised
              /\ kept # <<>>
              /\ Len(Pieces(kept[1], <<>>)) >= 1
              /\ \E i \in 1..Len(kept) : Len(Pieces(kept[i], <<>>)) > Len(Pieces(kept[1], <<>>))
              /\ \E i \in 1..Len(kept) : Len(Pieces(kept[i], <<>>)) < Len(Pieces(kept[1], <<>>))
              /\ Len(TablesOf(k)) = 1

\* whether the loop takes a line for a table row
RowLine(line) ==
    LET s == Strip(line) IN s # <<>> /\ s[1] = "|" /\ s[Len(s)] = "|"

\* the length of the run of table-row lines at the head of ls
RECURSIVE RunLength(_)
RunLength(ls) ==
    IF ls # <<>> /\ RowLine(Head(ls)) THEN 1 + RunLength(Tail(ls)) ELSE 0

\* the maximal runs of table-row lines of ls, trimmed, in order
RECURSIVE Runs(_)
Runs(ls) ==
    IF ls = <<>> THEN <<>>
    ELSE IF RowLine(Head(ls))
         THEN <<StripAll(SubSeq(ls, 1, RunLength(ls)))>>
                  \o Runs(SubSeq(ls, RunLength(ls) + 1, Len(ls)))
         ELSE Runs(Tail(ls))

\* the document built run by run: each maximal run is reconstructed as one
\* buffer (with the failure injected into the call of that run), each other
\* line gives its own block, all in input order
RECURSIVE RunByRun(_, _, _)
RunByRun(ls, fails, acc) ==
    IF ls = <<>> THEN acc
    ELSE IF RowLine(Head(ls))
         THEN RunByRun(SubSeq(ls, RunLength(ls) + 1, Len(ls)), Tail(fails),
                       CreateTable(acc, StripAll(SubSeq(ls, 1, RunLength(ls))),
                                   Head(fails)).doc)
         ELSE RunByRun(Tail(ls), fails, ProcessText(acc, Head(ls), Strip(Head(ls))))

\* C9: generate_docx preserves order and flushes once per run: every maximal
\* run of table-row lines is passed to table reconstruction exactly once, as
\* one buffer with exactly the rows of the run in input order, and the
\* document is the blocks of the lines and of the flushes in input order.
C9_OrderPreservingOneFlushPerRun ==
    Finished
        => /\ [k \in 1..Len(calls) |-> calls[k].table_lines] = Runs(lines)
           /\ doc = RunByRun(lines, [k \in 1..Len(calls) |-> calls[k].fail], <<>>)
           /\ \A k \in 1..Len(calls) :
                 /\ calls[k].at <= calls[k].end
                 /\ k < Len(calls) => calls[k].end <= calls[k + 1].at

\* C9 witness: a heading, a table row and a bullet gave heading, table and
\* bullet in that order from one flush
C9_Witness ==
    /\ pc = "done"
    /\ Len(lines) = 3
    /\ Len(calls) = 1
    /\ Len(calls[1].table_lines) = 1
    /\ Len(doc) = 3
    /\ doc[1].kind = "heading"
    /\ doc[2].kind = "table"
    /\ doc[3].style = "List Bullet"

LeadingMarkers ==
    { <<"#", " ">>, <<"#", "#", " ">>, <<"#", "#", "#", " ">>,
      <<"*", " ">>, <<"-", " ">> }

\* C10: no marker leaks into paragraph text: the text of the paragraph block
\* of an input line, leading whitespace ignored, begins with none of
\* '# ', '## ', '### ', '* ', '- '.
C10_NoMarkerLeak ==
    (Processed /\ table_buffer = <<>> /\ Strip(PrevLine) # <<>>
     /\ doc # <<>> /\ Last(doc).kind = "paragraph" /\ Last(doc).style = "Normal")
        => \A m \in LeadingMarkers : ~StartsWith(LStrip(Last(doc).text), m)

\* C11: prefix tests are made on the trimmed line: every line whose trimmed
\* form starts with '* ' or '- ', leading blanks before the marker included,
\* gives a bullet block whose text is what follows the 2-character marker,
\* never a paragraph block.
C11_BulletOnTrimmedLine ==
    (Processed /\ (StartsWith(Strip(PrevLine), <<"*", " ">>)
                   \/ StartsWith(Strip(PrevLine), <<"-", " ">>)))
        => /\ doc # <<>>
           /\ Last(doc).kind = "paragraph"
           /\ Last(doc).style = "List Bullet"
           /\ Last(doc).text = SubSeq(LStrip(PrevLine), 3, Len(LStrip(PrevLine)))

\* C12: every table block in the document has at least one row, and a
\* flushed buffer whose rows all contain '---' adds no block at all, neither
\* a table nor paragraphs.
C12_NoEmptyTable ==
    /\ \A n \in 1..Len(doc) : doc[n].kind = "table" => Len(doc[n].cells) >= 1
    /\ \A k \in 1..Len(calls) :
          KeptRows(calls[k].table_lines) = <<>>
              => calls[k].end = calls[k].at /\ ~calls[k].raised

\* C12 witness: a buffer of separator rows only was flushed between two
\* lines of text and left nothing between their paragraphs
C12_Witness ==
    /\ pc = "done"
    /\ Len(calls) = 1
    /\ calls[1].table_lines # <<>>
    /\ KeptRows(calls[1].table_lines) = <<>>
    /\ Len(doc) = 2
    /\ calls[1].at = 1 /\ calls[1].end = 1

\* C17: while the loop runs, the table buffer holds exactly the trimmed
\* forms of the maximal run of table-row lines that ends at the last
\* processed line, in input order: it is non-empty if and only if the last
\* processed line was a table row, and empty at the start.
C17_BufferIsTrailingRun ==
    pc = "loop"
        => /\ table_buffer = TrailingRun(SubSeq(lines, 1, idx - 1))
           /\ (table_buffer # <<>>) <=> (idx > 1 /\ RowLine(lines[idx - 1]))
           /\ idx = 1 => table_buffer = <<>>

\* C17 witness: after a line of text and two rows, the second with blanks
\* around it, the buffer holds the two trimmed rows
C17_Witness ==
    /\ pc = "loop"
    /\ idx = 4
    /\ ~RowLine(lines[1])
    /\ Len(table_buffer) = 2
    /\ \E i \in 2..3 : lines[i] # Strip(lines[i])

\* the number of non-empty cells of a row of a table
RECURSIVE FilledCount(_)
FilledCount(cells) ==
    IF cells = <<>> THEN 0
    ELSE (IF Head(cells) # <<>> THEN 1 ELSE 0) + FilledCount(Tail(cells))

Min(a, b) == IF a <= b THEN a ELSE b

\* C18: in a table built by a reconstruction that did not raise, every cell
\* assignment wrote a non-empty text (each row has as many non-empty cells
\* as it has pieces, up to the column count), and no cell text begins or
\* ends with whitespace, holds '|' or holds '---'.
C18_CellTextsAreClean ==
    \A k \in 1..Len(calls) :
        (~calls[k].raised /\ TablesOf(k) # <<>>)
            => LET t == TablesOf(k)[1]
                   kept == KeptRows(calls[k].table_lines)
               IN  \A i \in 1..Len(t.cells) :
                      /\ FilledCount(t.cells[i])
                            = Min(t.ncols, Len(Pieces(kept[i], <<>>)))
                      /\ \A j \in 1..Len(t.cells[i]) :
                            LET c == t.cells[i][j]
                            IN  c # <<>>
                                    => /\ c[1] \notin Whitespace
                                       /\ c[Len(c)] \notin Whitespace
                                       /\ \A n \in 1..Len(c) : c[n] # "|"
                                       /\ \A n \in 1..(Len(c) - 2) :
                                             ~(c[n] = "-" /\ c[n + 1] = "-"
                                               /\ c[n + 2] = "-")

\* C18 witness: a table was built from a row whose cells are written with
\* blanks around them and from a buffer that also held a separator row
C18_Witness ==
    /\ pc = "done"
    /\ \E k \in 1..Len(calls) :
          /\ ~calls[k].raised
          /\ Len(TablesOf(k)) = 1
          /\ Len(KeptRows(calls[k].table_lines)) < Len(calls[k].table_lines)
          /\ \E i \in 1..Len(calls[k].table_lines) :
                Contains(calls[k].table_lines[i], <<" ", "|">>)
          /\ TablesOf(k)[1].ncols = 2

\* the length of the document once a pending flush of this step is done
AfterFlush == IF table_buffer = <<>> THEN Len(doc) ELSE Last(calls').end

\* some step of generate_docx can be taken: the guard of Begin, of LoopStep,
\* of FinalFlush or of Return holds (what follows the guard in each of them
\* assigns every variable and never blocks)
CanStep ==
    \/ pc = "start"
    \/ pc = "loop" /\ idx <= Len(lines)
    \/ pc = "loop" /\ idx > Len(lines)
    \/ pc = "save"

\* C13: for every input text generate_docx takes the lines one by one in
\* order and reaches its end without raising: no state is an error state,
\* every state before the end has a next step, every step moves forward
\* (the next line, or the next stage of the function), and every line is
\* either appended to the buffer, or gives exactly one block, or (a blank
\* line) gives nothing.
C13_EveryLineOnceNoError ==
    [][/\ pc' # "error"
       /\ idx' <= Len(lines') + 1
       /\ pc' # "done" => CanStep'
       /\ pc = "start" => (pc' = "loop" /\ idx' = 1)
       /\ (pc = "loop" /\ idx <= Len(lines))
             => /\ idx' = idx + 1
                /\ pc' = "loop"
                /\ lines' = lines
                /\ \/ /\ table_buffer' = Append(table_buffer, Strip(lines[idx]))
                      /\ doc' = doc
                      /\ calls' = calls
                   \/ /\ table_buffer' = <<>>
                      /\ Len(doc') = AfterFlush + 1
                      /\ Strip(lines[idx]) # <<>>
                   \/ /\ table_buffer' = <<>>
                      /\ Len(doc') = AfterFlush
                      /\ Strip(lines[idx]) = <<>>
       /\ (pc = "loop" /\ idx > Len(lines)) => pc' = "save"
       /\ pc = "save" => pc' = "done"
       /\ pc # "done"]_vars

\* C13 witness: a text of a lone pipe, a line with a stray pipe and a table
\* row was converted to the end, with a failing reconstruction on the way
C13_Witness ==
    /\ pc = "done"
    /\ idx = Len(lines) + 1
    /\ Len(lines) = 3
    /\ \E i \in 1..3 : lines[i] = <<"|">>
    /\ \E i \in 1..3 : lines[i] = <<"a", "|">>
    /\ \E k \in 1..Len(calls) : calls[k].raised

\* the block type of a line, from the content of the line alone
LineType(line) ==
    IF RowLine(line) THEN "TableRow"
    ELSE IF \E n \in 1..3 : StartsWith(line, Marker(n)) THEN "Heading"
    ELSE IF line # <<>> /\ Len(line) >= 2 /\ line[1] \in {"*", "-"} /\ line[2] = " "
         THEN "BulletItem"
    ELSE IF \E i \in 1..Len(line) : line[i] \notin Whitespace THEN "Paragraph"
    ELSE "Blank"

\* the block type the loop gave the line of this step, read off what the
\* step did: the line went to the buffer, or nothing was added for it, or
\* the block added last is a heading, a bullet or a paragraph
StepType ==
    IF table_buffer' # <<>> THEN "TableRow"
    ELSE IF Len(doc') = AfterFlush THEN "Blank"
    ELSE IF Last(doc').kind = "heading" THEN "Heading"
    ELSE IF Last(doc').style = "List Bullet" THEN "BulletItem"
    ELSE "Paragraph"

\* C14: the block type of a line depends on the content of the line only:
\* in every step of the loop, with the buffer empty or not and whatever
\* lines came before, the type the line gets is one fixed function of the
\* line, and a heading gets the level of its marker.
C14_TypeDependsOnLineOnly ==
    [][(pc = "loop" /\ idx <= Len(lines))
          => /\ StepType = LineType(lines[idx])
             /\ StepType = "Heading"
                   => StartsWith(lines[idx], Marker(Last(doc').level))]_vars

\* C14 witness: the same line of text was processed right after a table row
\* and again with the buffer empty, and gave the same block both times
C14_Witness ==
    /\ Processed
    /\ idx = 4
    /\ RowLine(lines[1])
    /\ lines[2] = lines[3]
    /\ LineType(lines[2]) \in {"Heading", "BulletItem", "Paragraph"}
    /\ Len(calls) = 1
    /\ Len(doc) >= 2
    /\ doc[Len(doc)] = doc[Len(doc) - 1]

\* C15: a blank line never adds a block of its own, and a text of blank
\* lines only (the empty text is one empty line) ends the loop with an
\* empty document, no reconstruction and no error.
C15_BlankLinesGiveNothing ==
    [][/\ (pc = "loop" /\ idx <= Len(lines) /\ Strip(lines[idx]) = <<>>)
             => /\ Len(doc') = AfterFlush
                /\ table_buffer' = <<>>
                /\ pc' = "loop"
       /\ (pc = "loop" /\ idx > Len(lines)
           /\ \A i \in 1..Len(lines) : Strip(lines[i]) = <<>>)
             => /\ doc' = <<>>
                /\ calls' = <<>>
                /\ pc' = "save"]_vars

\* C15 witness: a text of one empty line and two lines of blanks was
\* converted and the document is empty
C15_Witness ==
    /\ pc = "done"
    /\ Len(lines) = 3
    /\ \A i \in 1..3 : Strip(lines[i]) = <<>>
    /\ \E i \in 1..3 : lines[i] = <<>>
    /\ \E i \in 1..3 : lines[i] = <<" ">>
    /\ doc = <<>>

\* the document generate_docx gives for a text when the call runs alone
\* and no library call fails
AloneDoc(text) ==
    LET ls == SplitOn(text, NL)
    IN  RunByRun(ls, [k \in 1..Len(ls) |-> 0], <<>>)

\* C16: two conversions whose steps interleave in any way share no buffer
\* and no document: while a call is in its loop its buffer holds the
\* trailing run of its own lines only, and the document it returns is the
\* document the call gives when it runs alone.
C16_InterleavedCallsAreIsolated ==
    \A p \in Procs :
        /\ pc[p] = "loop"
              => table_buffer[BufferOf(p)] = TrailingRun(SubSeq(lines[p], 1, idx[p] - 1))
        /\ pc[p] \in {"save", "done"} => doc[DocOf(p)] = AloneDoc(text_content[p])

\* C16 witness: both calls are in the middle of their loops at once, each
\* with rows in its buffer and the two buffers different, one call with a
\* block already written
C16_Witness ==
    /\ pc[1] = "loop" /\ pc[2] = "loop"
    /\ idx[1] = 3 /\ idx[2] = 2
    /\ Len(lines[1]) = 2 /\ Len(lines[2]) = 2
    /\ doc[DocOf(1)] # <<>>
    /\ table_buffer[BufferOf(1)] # <<>>
    /\ table_buffer[BufferOf(2)] # <<>>
    /\ table_buffer[BufferOf(1)] # table_buffer[BufferOf(2)]

====
